---- MODULE Spec2Model ----
(***************************************************************************)
(* A model of the Quran AI worker: the request handler (fetchHandler), the  *)
(* module-level corpus cache (loadQuranData), the keyword extractor and     *)
(* relevance ranker, and the daily neuron quota kept in the NEURON_LIMITER  *)
(* key-value store (checkAndUpdateNeuronLimit).                             *)
(*                                                                         *)
(* JavaScript runs one continuation at a time, so a handler is atomic      *)
(* between two awaits.  Every action below is one such stretch of code:    *)
(* from the resumption of one await to the suspension at the next one (or  *)
(* to the handler's return).                                               *)
(*                                                                         *)
(* Neuron amounts are JavaScript numbers in the source.  Here an amount is *)
(* the exact decimal <<whole neurons, millionths of a neuron>>: both rates *)
(* are whole numbers of millionths per token, so every amount the program  *)
(* computes from whole token counts is represented without rounding.       *)
(* Floating-point rounding is not modelled.                                *)
(***************************************************************************)
EXTENDS Integers, Sequences, FiniteSets, TLC

(***************************************************************************)
(* Bounds of the model.                                                    *)
(***************************************************************************)
NumReqs == 2      \* request handlers that can be in flight at once
MaxCalls == 2     \* requests received in one behaviour of Spec
MeterCalls == 3   \* requests received in one behaviour of MeterSpec
MaxDay == 2       \* UTC days the clock runs through

(***************************************************************************)
(* Program constants.                                                      *)
(***************************************************************************)
INPUT_TOKEN_NEURON_RATE == 26668      \* millionths of a neuron per prompt token
OUTPUT_TOKEN_NEURON_RATE == 204805    \* millionths of a neuron per completion token
DAILY_NEURON_LIMIT == 10000           \* neurons per UTC day
MaxQuestionLength == 500              \* question.length > 500 is rejected
AskLimit == 3                         \* findRelevantVerses(quranData, keywords, 3)

Million == 1000 * 1000

(***************************************************************************)
(* Exact neuron arithmetic on <<whole, millionths>>, millionths < 10^6.    *)
(***************************************************************************)
Norm(whole, micro) == <<whole + (micro \div Million), micro % Million>>

NZero == <<0, 0>>

NAdd(a, b) == Norm(a[1] + b[1], a[2] + b[2])

NGt(a, b) == a[1] > b[1] \/ (a[1] = b[1] /\ a[2] > b[2])

NGe(a, b) == a = b \/ NGt(a, b)

\* a - b for a >= b
NSub(a, b) ==
  IF a[2] >= b[2] THEN <<a[1] - b[1], a[2] - b[2]>>
  ELSE <<a[1] - b[1] - 1, a[2] + Million - b[2]>>

\* tokens * rate, rate in millionths of a neuron per token.  The product is
\* taken in two parts so that no intermediate value leaves 32 bits.
NTimes(tokens, rate) ==
  LET th == tokens \div 1000
      tl == tokens % 1000
      milli == th * rate            \* thousandths of a neuron
  IN  Norm(milli \div 1000, (milli % 1000) * 1000 + tl * rate)

NLimit == <<DAILY_NEURON_LIMIT, 0>>

calculateNeuronsConsumed(promptTokens, completionTokens) ==
  LET inputNeurons == NTimes(promptTokens, INPUT_TOKEN_NEURON_RATE)
      outputNeurons == NTimes(completionTokens, OUTPUT_TOKEN_NEURON_RATE)
  IN  NAdd(inputNeurons, outputNeurons)

estimateTokens(text) == (Len(text) + 3) \div 4

(***************************************************************************)
(* Strings.  A character is a string of length 1.                          *)
(***************************************************************************)
CharAt(s, i) == SubSeq(s, i, i)

UpperCase == "ABCDEFGHIJKLMNOPQRSTUVWXYZ"
LowerCase == "abcdefghijklmnopqrstuvwxyz"
Digits == "0123456789"

IndexIn(alphabet, ch) ==
  IF \E i \in 1..Len(alphabet) : CharAt(alphabet, i) = ch
  THEN CHOOSE i \in 1..Len(alphabet) : CharAt(alphabet, i) = ch
  ELSE 0

LowerChar(ch) ==
  LET i == IndexIn(UpperCase, ch) IN IF i = 0 THEN ch ELSE CharAt(LowerCase, i)

IsWordChar(ch) ==
  IndexIn(LowerCase, ch) > 0 \/ IndexIn(UpperCase, ch) > 0
    \/ IndexIn(Digits, ch) > 0 \/ ch = "_"

IsSpace(ch) == ch = " " \/ ch = "\t" \/ ch = "\n"

\* kind "lower": String.prototype.toLowerCase; kind "strip": replace(/[^\w\s]/g, ' ')
MapChar(kind, ch) ==
  IF kind = "lower" THEN LowerChar(ch)
  ELSE IF IsWordChar(ch) \/ IsSpace(ch) THEN ch ELSE " "

RECURSIVE MapChars(_, _, _)
MapChars(kind, s, i) ==
  IF i > Len(s) THEN "" ELSE MapChar(kind, CharAt(s, i)) \o MapChars(kind, s, i + 1)

toLowerCase(s) == MapChars("lower", s, 1)

StripPunctuation(s) == MapChars("strip", s, 1)

\* s.split(/\s+/): the pieces between maximal runs of whitespace; a leading or
\* trailing run leaves an empty piece at that end.
RECURSIVE SplitFrom(_, _, _)
SplitFrom(s, i, cur) ==
  IF i > Len(s) THEN <<cur>>
  ELSE IF IsSpace(CharAt(s, i))
       THEN IF i > 1 /\ IsSpace(CharAt(s, i - 1))
            THEN SplitFrom(s, i + 1, cur)
            ELSE <<cur>> \o SplitFrom(s, i + 1, "")
       ELSE SplitFrom(s, i + 1, cur \o CharAt(s, i))

SplitWhitespace(s) == SplitFrom(s, 1, "")

\* s.includes(k)
Includes(s, k) ==
  \E i \in 1..(Len(s) - Len(k) + 1) : SubSeq(s, i, i + Len(k) - 1) = k

RECURSIVE SelectStr(_, _)
SelectStr(seq, keep) ==
  IF seq = <<>> THEN <<>>
  ELSE (IF keep[Head(seq)] THEN <<Head(seq)>> ELSE <<>>) \o SelectStr(Tail(seq), keep)

stopWords ==
  { "apa", "siapa", "dimana", "kapan", "mengapa", "bagaimana",
    "yang", "dan", "atau", "dari", "ke", "di", "pada", "dengan",
    "untuk", "tentang", "seperti", "adalah", "itu", "ini", "saya",
    "kamu", "kita", "mereka", "dalam", "oleh", "the", "what", "who",
    "where", "when", "why", "how", "is", "are", "and", "or", "from",
    "to", "in", "on", "with", "for", "about", "like", "that", "this" }

\* extractKeywords with the stop-words kept.
extractKeywordsKeepingStopWords(question) ==
  LET words == SplitWhitespace(StripPunctuation(toLowerCase(question)))
      keep == [w \in {words[i] : i \in 1..Len(words)} |-> Len(w) > 2]
  IN  SelectStr(words, keep)

extractKeywords(question) ==
  LET words == SplitWhitespace(StripPunctuation(toLowerCase(question)))
      keep == [w \in {words[i] : i \in 1..Len(words)} |->
                 Len(w) > 2 /\ w \notin stopWords]
  IN  SelectStr(words, keep)

(***************************************************************************)
(* The corpus.  The Arabic text of a verse is data the program only copies; *)
(* it is written here in Latin transliteration.                             *)
(***************************************************************************)
loadFallbackData ==
  << [ id |-> 1, name |-> "Al-Fatihah", transliteration |-> "Al-Fatihah",
       translation |-> "Pembukaan", type |-> "Makkiyah", total_verses |-> 7,
       verses |->
         << [ id |-> 1, text |-> "bismillahir rahmanir rahim",
              translation |-> "Dengan menyebut nama Allah Yang Maha Pengasih lagi Maha Penyayang." ],
            [ id |-> 2, text |-> "alhamdu lillahi rabbil alamin",
              translation |-> "Segala puji bagi Allah, Tuhan semesta alam." ] >> ],
     [ id |-> 2, name |-> "Al-Baqarah", transliteration |-> "Al-Baqarah",
       translation |-> "Sapi Betina", type |-> "Madaniyah", total_verses |-> 286,
       verses |->
         << [ id |-> 1, text |-> "alif lam mim", translation |-> "Alif Lam Mim." ],
            [ id |-> 2, text |-> "dhalikal kitabu la rayba fih",
              translation |-> "Kitab (Al-Quran) ini tidak ada keraguan padanya; petunjuk bagi mereka yang bertakwa." ] >> ] >>

\* The value JavaScript's `a || b` yields for strings: "" is falsy.
OrElse(a, b) == IF a = "" THEN b ELSE a

\* The surahs of a well-formed API answer, as loadQuranData maps them.  A field
\* the API leaves out is "" here.
MapSurahs(surahs) ==
  [ index \in 1..Len(surahs) |->
      LET surah == surahs[index] IN
      [ id |-> index,
        name |-> OrElse(surah.englishName, "Surah " \o ToString(index)),
        transliteration |-> surah.englishNameTranslation,
        translation |-> surah.name,
        type |-> IF surah.revelationType = "Meccan" THEN "Makkiyah" ELSE "Madaniyah",
        total_verses |-> Len(surah.ayahs),
        verses |-> [ ayahIndex \in 1..Len(surah.ayahs) |->
                       [ id |-> ayahIndex,
                         text |-> surah.ayahs[ayahIndex].text,
                         translation |-> surah.ayahs[ayahIndex].translation ] ] ] ]

\* Answers of the remote corpus API.
RemoteSurahs ==
  << [ englishName |-> "Al-Faatiha", englishNameTranslation |-> "The Opening",
       name |-> "Al-Fatihah", revelationType |-> "Meccan",
       ayahs |-> << [ text |-> "bismillahir rahmanir rahim",
                      translation |-> "Dengan nama Allah Yang Maha Pengasih." ],
                    [ text |-> "alhamdu lillahi rabbil alamin", translation |-> "" ] >> ],
     [ englishName |-> "", englishNameTranslation |-> "The Cow",
       name |-> "Al-Baqarah", revelationType |-> "Medinan",
       ayahs |-> << [ text |-> "innallaha maas sabirin",
                      translation |-> "Sungguh, Allah beserta orang-orang yang sabar." ],
                    [ text |-> "wasbir", translation |-> "Bersabarlah, Allah Maha Melihat." ],
                    [ text |-> "wallahu yuhibbus sabirin",
                      translation |-> "Allah mencintai orang yang sabar." ],
                    [ text |-> "wabassyiris sabirin",
                      translation |-> "Berilah kabar gembira kepada orang yang sabar." ] >> ] >>

FetchOutcomes ==
  { [ kind |-> "json", code |-> 200, surahs |-> RemoteSurahs ],
    [ kind |-> "json", code |-> 200, surahs |-> <<>> ],
    [ kind |-> "json", code |-> 404, surahs |-> <<>> ],
    [ kind |-> "throw", code |-> 0, surahs |-> <<>> ] }

\* The value loadQuranData assigns to quranData for one outcome of the fetch.
LoadedData(outcome) ==
  IF outcome.kind = "json" /\ outcome.code = 200
  THEN MapSurahs(outcome.surahs)
  ELSE loadFallbackData

(***************************************************************************)
(* The relevance ranker.                                                   *)
(***************************************************************************)
RECURSIVE ScoreOf(_, _)
ScoreOf(verseText, keywords) ==
  IF keywords = <<>> THEN 0
  ELSE (IF Includes(verseText, Head(keywords)) THEN Len(Head(keywords)) ELSE 0)
         + ScoreOf(verseText, Tail(keywords))

\* The entries pushed to relevantVerses for one surah, in verse order.
RECURSIVE ScoredVerses(_, _, _)
ScoredVerses(surah, keywords, i) ==
  IF i > Len(surah.verses) THEN <<>>
  ELSE LET verse == surah.verses[i]
           score == ScoreOf(toLowerCase(verse.translation), keywords)
       IN  (IF verse.translation # "" /\ score > 0
            THEN << [ surah_id |-> surah.id,
                      surah_name |-> surah.name,
                      surah_name_arabic |-> surah.name,
                      verse_id |-> verse.id,
                      verse_text_arabic |-> verse.text,
                      verse_text_translation |-> verse.translation,
                      score |-> score ] >>
            ELSE <<>>)
           \o ScoredVerses(surah, keywords, i + 1)

RECURSIVE AllScored(_, _, _)
AllScored(data, keywords, s) ==
  IF s > Len(data) THEN <<>>
  ELSE ScoredVerses(data[s], keywords, 1) \o AllScored(data, keywords, s + 1)

\* JavaScript numbers as far as the ranker's limit needs them: an integer
\* or NaN.
Num(n) == [ nan |-> FALSE, value |-> n ]
NaN == [ nan |-> TRUE, value |-> 0 ]

\* The value of the run of decimal digits of s that starts at position i.
RECURSIVE ParseDigits(_, _, _)
ParseDigits(s, i, acc) ==
  IF i > Len(s) \/ IndexIn(Digits, CharAt(s, i)) = 0 THEN acc
  ELSE ParseDigits(s, i + 1, acc * 10 + IndexIn(Digits, CharAt(s, i)) - 1)

\* The first position of s that holds no whitespace.
RECURSIVE SkipSpace(_, _)
SkipSpace(s, i) ==
  IF i <= Len(s) /\ IsSpace(CharAt(s, i)) THEN SkipSpace(s, i + 1) ELSE i

\* parseInt(s): leading whitespace, an optional sign, then the longest run
\* of digits; NaN when no digit is there.
parseInt(s) ==
  LET first == SkipSpace(s, 1)
      signed == first <= Len(s) /\ CharAt(s, first) \in { "-", "+" }
      start == IF signed THEN first + 1 ELSE first
      magnitude == ParseDigits(s, start, 0)
  IN  IF start > Len(s) \/ IndexIn(Digits, CharAt(s, start)) = 0 THEN NaN
      ELSE IF signed /\ CharAt(s, first) = "-" THEN Num(0 - magnitude)
      ELSE Num(magnitude)

\* InsertByScore with a new entry put in front of the entries of its score.
RECURSIVE InsertByScoreUnstable(_, _)
InsertByScoreUnstable(sorted, v) ==
  IF sorted = <<>> THEN <<v>>
  ELSE IF Head(sorted).score > v.score
       THEN <<Head(sorted)>> \o InsertByScoreUnstable(Tail(sorted), v)
       ELSE <<v>> \o sorted

\* Array.prototype.sort with (a, b) => b.score - a.score: stable, by
\* descending score.
RECURSIVE InsertByScore(_, _)
InsertByScore(sorted, v) ==
  IF sorted = <<>> THEN <<v>>
  ELSE IF Head(sorted).score >= v.score
       THEN <<Head(sorted)>> \o InsertByScore(Tail(sorted), v)
       ELSE <<v>> \o sorted

RECURSIVE SortByScore(_)
SortByScore(seq) ==
  IF seq = <<>> THEN <<>>
  ELSE InsertByScore(SortByScore(SubSeq(seq, 1, Len(seq) - 1)), seq[Len(seq)])

\* Array.prototype.slice(0, limit): NaN is taken as 0, and a negative limit
\* counts from the end of the array.
SliceTo(seq, limit) ==
  LET n == Len(seq)
      relativeEnd == IF limit.nan THEN 0 ELSE limit.value
      end == IF relativeEnd < 0 THEN (IF n + relativeEnd < 0 THEN 0 ELSE n + relativeEnd)
             ELSE IF relativeEnd > n THEN n ELSE relativeEnd
  IN  SubSeq(seq, 1, end)

WithReference(v) ==
  [ surah_id |-> v.surah_id,
    surah_name |-> v.surah_name,
    surah_name_arabic |-> v.surah_name_arabic,
    verse_id |-> v.verse_id,
    verse_text_arabic |-> v.verse_text_arabic,
    verse_text_translation |-> v.verse_text_translation,
    score |-> v.score,
    reference |-> v.surah_name \o " (" \o ToString(v.surah_id) \o ":"
                    \o ToString(v.verse_id) \o ")" ]

findRelevantVerses(data, keywords, limit) ==
  LET relevantVerses == AllScored(data, keywords, 1)
      top == SliceTo(SortByScore(relevantVerses), limit)
  IN  [ i \in 1..Len(top) |-> WithReference(top[i]) ]

\* The projection every response applies to the ranked verses.
ProjectVerse(v) ==
  [ surah_id |-> v.surah_id,
    surah_name |-> v.surah_name,
    surah_name_arabic |-> v.surah_name_arabic,
    verse_id |-> v.verse_id,
    verse_arabic |-> v.verse_text_arabic,
    verse_translation |-> v.verse_text_translation,
    reference |-> v.reference ]

VersesData(relevantVerses) ==
  [ i \in 1..Len(relevantVerses) |-> ProjectVerse(relevantVerses[i]) ]

(***************************************************************************)
(* The prompts.  Each template is cut to its opening lines; the places     *)
(* where the question, the language and the verses enter are kept.         *)
(***************************************************************************)
SYSTEM_PROMPTS(language) ==
  IF language = "en"
  THEN "You are a knowledgeable Quran AI assistant. Your name: Ustad AI."
  ELSE "Anda adalah asisten AI khusus Al-Quran yang sangat berpengetahuan. Nama Anda: Ustad AI."

VerseContext(v, language) ==
  "Surah " \o OrElse(v.surah_name_arabic, v.surah_name)
    \o " (" \o ToString(v.surah_id) \o ":" \o ToString(v.verse_id) \o ")"
    \o (IF language = "id" THEN " Ayat Arab: " ELSE " Arabic Verse: ")
    \o v.verse_text_arabic
    \o (IF language = "id" THEN " Terjemahan Indonesia: " ELSE " English Translation: ")
    \o v.verse_text_translation

RECURSIVE JoinContext(_, _, _)
JoinContext(verses, language, i) ==
  IF i > Len(verses) THEN ""
  ELSE (IF i > 1 THEN "  " ELSE "") \o VerseContext(verses[i], language)
         \o JoinContext(verses, language, i + 1)

createQuranPrompt(question, relevantVerses, language) ==
  IF relevantVerses = <<>>
  THEN IF language = "id"
       THEN "Anda hanya menjawab pertanyaan berdasarkan Al-Quran. Pertanyaan: "
              \o question \o " Jawaban:"
       ELSE "You only answer questions based on the Quran. Question: "
              \o question \o " Answer:"
  ELSE IF language = "id"
       THEN "Tugas Anda hanya menjawab berdasarkan ayat-ayat Al-Quran di bawah ini: Pertanyaan: "
              \o question \o " AYAT-AL-QURAN YANG RELEVAN: "
              \o JoinContext(relevantVerses, language, 1) \o " JAWABAN:"
       ELSE "You must answer ONLY based on the Quran verses below: Question: "
              \o question \o " RELEVANT QURAN VERSES: "
              \o JoinContext(relevantVerses, language, 1) \o " ANSWER:"

(***************************************************************************)
(* Requests, gateway answers and storage values the model draws from.      *)
(***************************************************************************)
\* A JSON body: `json` is whether request.json() parses it; a field the body
\* leaves out is "".
Body(question, language) ==
  [ json |-> TRUE, question |-> question, language |-> language ]

MalformedBody == [ json |-> FALSE, question |-> "", language |-> "" ]

\* `q` and `limit` are the query parameters of the URL, "" when left out.
Request(method, path, body) ==
  [ method |-> method, path |-> path, body |-> body, q |-> "", limit |-> "" ]

RECURSIVE Repeat(_, _)
Repeat(s, n) == IF n = 0 THEN "" ELSE s \o Repeat(s, n - 1)

LongQuestion == Repeat("sabar ", 84)      \* 504 characters

AskBodies ==
  { Body("Apa itu sabar?", ""),
    Body("Siapa Allah?", "en"),
    Body("Apa itu?", "fr"),
    Body("", "id"),
    Body(LongQuestion, "id"),
    MalformedBody }

Requests ==
  { Request("POST", "/api/ask", b) : b \in AskBodies }
    \cup { Request("POST", "/api/chat", Body("", "")),
           Request("OPTIONS", "/api/ask", MalformedBody),
           Request("GET", "/api/health", MalformedBody),
           Request("GET", "/api/surah", MalformedBody),
           Request("GET", "/api/unknown", MalformedBody) }

\* What env.AI.run resolves to: a text field the gateway leaves out is "";
\* `usage` is whether the answer carries a usage object with its two figures
\* (0 is then a figure the gateway reported).
AIResponses ==
  { [ response |-> "Sabar adalah menahan diri.", content |-> "", answer |-> "",
      usage |-> TRUE, prompt_tokens |-> 22630, completion_tokens |-> 26350 ],
    [ response |-> "", content |-> "Allah is One.", answer |-> "",
      usage |-> TRUE, prompt_tokens |-> 15085, completion_tokens |-> 17566 ],
    [ response |-> "", content |-> "", answer |-> "Lihat ayat berikut.",
      usage |-> FALSE, prompt_tokens |-> 0, completion_tokens |-> 0 ],
    [ response |-> "Penjelasan panjang.", content |-> "", answer |-> "",
      usage |-> TRUE, prompt_tokens |-> 400, completion_tokens |-> 50000 ],
    [ response |-> "Ya.", content |-> "", answer |-> "",
      usage |-> TRUE, prompt_tokens |-> 0, completion_tokens |-> 0 ] }

\* The rankings of the model's questions over the model's corpora, computed
\* once: Ranked[data][question] is
\* findRelevantVerses(data, extractKeywords(question), 3).
Corpora == { LoadedData(outcome) : outcome \in FetchOutcomes }

\* The questions that pass the handler's validation.
Questions ==
  { b.question : b \in { x \in AskBodies : x.json /\ x.question # ""
                                            /\ Len(x.question) <= MaxQuestionLength } }

Keywords == [ question \in Questions |-> extractKeywords(question) ]

Ranked ==
  [ data \in Corpora |->
      [ question \in Questions |-> findRelevantVerses(data, Keywords[question], Num(AskLimit)) ] ]

\* Whether any verse of the corpus scores above 0 for the question.
HasMatch ==
  [ data \in Corpora |->
      [ question \in Questions |-> AllScored(data, Keywords[question], 1) # <<>> ] ]

\* GET /api/search?q=...&limit=...
SearchRequest(q, limit) ==
  [ Request("GET", "/api/search", MalformedBody) EXCEPT !.q = q, !.limit = limit ]

SearchQueries == { "sabar Allah", "Apa itu?", "" }

SearchLimits == { "", "3", "1", "0", "-1", "abc" }

SearchRequests == { SearchRequest(q, limit) : q \in SearchQueries, limit \in SearchLimits }

\* The limit /api/search passes on: parseInt(limit || '10').
SearchLimit == [ limit \in SearchLimits |-> parseInt(OrElse(limit, "10")) ]

SearchKeywords == [ q \in SearchQueries |-> extractKeywords(q) ]

\* The results of the model's searches, computed once: Found[data][q][limit]
\* is findRelevantVerses(data, extractKeywords(q), parseInt(limit || '10')).
Found ==
  [ data \in Corpora |->
      [ q \in SearchQueries |->
          [ limit \in SearchLimits |->
              findRelevantVerses(data, SearchKeywords[q], SearchLimit[limit]) ] ] ]

Days == 1..MaxDay
Reqs == 1..NumReqs

\* A value of the NEURON_LIMITER store: null, or the string put there.
Null == [ kind |-> "null" ]
NumberToString(n) == [ kind |-> "string", digits |-> n ]
parseFloat(stored) == stored.digits

NoResponse == [ status |-> 0 ]
NoAI == [ usage |-> FALSE ]
NoCheck == [ allowed |-> FALSE, reached |-> FALSE ]

NoLocals ==
  [ request |-> Request("", "", MalformedBody),
    data |-> <<>>,
    question |-> "", language |-> "",
    ranked |-> FALSE, relevantVerses |-> <<>>,
    aiCalled |-> FALSE, aiReturned |-> FALSE,
    aiResponse |-> NoAI, aiAnswer |-> "",
    promptTokens |-> 0, completionTokens |-> 0,
    today |-> 0, consumedNeurons |-> NZero,
    kvRead |-> FALSE, readFailed |-> FALSE, stored |-> Null,
    currentNeurons |-> NZero, newTotal |-> NZero,
    kvPut |-> FALSE, putFailed |-> FALSE,
    limitCheck |-> NoCheck ]

VARIABLES
  now,          \* the UTC day of the wall clock
  kv,           \* NEURON_LIMITER: the value stored under neuron_usage:<day>
  quranData,    \* the module-level corpus cache
  pc,           \* where each request handler is suspended
  loc,          \* each handler's local variables
  resp,         \* the response each handler returned
  calls,        \* requests received so far
  charged,      \* history: per day key, the sum of consumed over admitted calls
  disturbed     \* history: per day key, a storage operation on it failed, or it
                \* was read while another call was between its read and its write

vars == << now, kv, quranData, pc, loc, resp, calls, charged, disturbed >>

Init ==
  /\ now = 1
  /\ kv = [ d \in Days |-> Null ]
  /\ quranData = <<>>
  /\ pc = [ r \in Reqs |-> "idle" ]
  /\ loc = [ r \in Reqs |-> NoLocals ]
  /\ resp = [ r \in Reqs |-> NoResponse ]
  /\ calls = 0
  /\ charged = [ d \in Days |-> NZero ]
  /\ disturbed = [ d \in Days |-> FALSE ]

(***************************************************************************)
(* Responses.                                                              *)
(***************************************************************************)
Json(status, body) == [ status |-> status, body |-> body ]

\* The outer catch of fetchHandler.
InternalError(message) ==
  Json(500, [ kind |-> "error", error |-> "Internal server error", message |-> message ])

Disclaimer(language) ==
  IF language = "id"
  THEN "Jawaban AI untuk referensi. Verifikasi dengan ulama dan tafsir sahih."
  ELSE "AI answer for reference. Verify with scholars and authentic tafsir."

formatResponse(aiAnswer, relevantVerses, language, usageInfo) ==
  [ kind |-> "ask",
    success |-> TRUE,
    answer |-> aiAnswer,
    verses_data |-> VersesData(relevantVerses),
    language |-> language,
    disclaimer |-> Disclaimer(language),
    usage |-> usageInfo ]

\* LimitExceededResponse with the verses left out.
LimitExceededResponseBare(question, relevantVerses, language, limitCheck) ==
  [ kind |-> "ask",
    success |-> FALSE,
    answer |-> "Batas harian neuron terlampaui.",
    verses_data |-> <<>>,
    language |-> language,
    error |-> "neuron_limit_exceeded",
    disclaimer |-> "",
    limit_info |-> [ consumed |-> limitCheck.consumed,
                     remaining |-> limitCheck.remaining,
                     daily_limit |-> limitCheck.dailyLimit,
                     message |-> limitCheck.message ] ]

LimitExceededResponse(question, relevantVerses, language, limitCheck) ==
  [ kind |-> "ask",
    success |-> FALSE,
    answer |-> IF language = "id"
               THEN "Batas harian neuron terlampaui. Berikut ayat-ayat terkait \""
                      \o question \o "\":"
               ELSE "Daily neuron limit exceeded. Here are relevant Quran verses about \""
                      \o question \o "\":",
    verses_data |-> VersesData(relevantVerses),
    language |-> language,
    error |-> "neuron_limit_exceeded",
    disclaimer |-> IF language = "id"
                   THEN "AI sedang offline karena batas harian neuron. Hanya menampilkan ayat-ayat Al-Quran yang relevan."
                   ELSE "AI is offline due to daily neuron limit. Only displaying relevant Quran verses.",
    limit_info |-> [ consumed |-> limitCheck.consumed,
                     remaining |-> limitCheck.remaining,
                     daily_limit |-> limitCheck.dailyLimit,
                     message |-> limitCheck.message ] ]

\* AIErrorResponse with the verses left out.
AIErrorResponseBare(question, relevantVerses, language) ==
  [ kind |-> "ask",
    success |-> FALSE,
    answer |-> "",
    verses_data |-> <<>>,
    language |-> language,
    error |-> "AI service temporarily unavailable",
    disclaimer |-> "" ]

AIErrorResponse(question, relevantVerses, language) ==
  [ kind |-> "ask",
    success |-> FALSE,
    answer |-> IF language = "id"
               THEN "Berdasarkan pertanyaan Anda tentang \"" \o question
                      \o "\", berikut beberapa ayat Al-Quran yang relevan:"
               ELSE "Based on your question about \"" \o question
                      \o "\", here are some relevant Quran verses:",
    verses_data |-> VersesData(relevantVerses),
    language |-> language,
    error |-> "AI service temporarily unavailable",
    disclaimer |-> IF language = "id"
                   THEN "AI sedang mengalami gangguan. Hanya menampilkan ayat-ayat Al-Quran yang relevan."
                   ELSE "AI service is currently unavailable. Only displaying relevant Quran verses." ]

(***************************************************************************)
(* checkAndUpdateNeuronLimit, in its pieces.                               *)
(***************************************************************************)

\* CurrentNeurons with the value of the key taken although the read failed.
CurrentNeuronsIgnoringFailure(readOk, stored) ==
  IF stored # Null THEN parseFloat(stored) ELSE NZero

\* currentNeurons after the read: a failed read and a missing key leave 0.
CurrentNeurons(readOk, stored) ==
  IF readOk /\ stored # Null THEN parseFloat(stored) ELSE NZero

\* LimitCheck with the test written newTotal >= DAILY_NEURON_LIMIT.
LimitCheckAtLimitDenied(currentNeurons, consumedNeurons) ==
  LET newTotal == NAdd(currentNeurons, consumedNeurons) IN
  [ reached |-> TRUE,
    allowed |-> ~NGe(newTotal, NLimit),
    consumed |-> consumedNeurons,
    remaining |-> IF NGe(newTotal, NLimit)
                  THEN (IF NGt(currentNeurons, NLimit) THEN NZero
                        ELSE NSub(NLimit, currentNeurons))
                  ELSE NSub(NLimit, newTotal),
    dailyLimit |-> DAILY_NEURON_LIMIT,
    message |-> "" ]

\* LimitCheck with the remaining of a denied call taken from the new total.
LimitCheckRemainingOfNewTotal(currentNeurons, consumedNeurons) ==
  LET newTotal == NAdd(currentNeurons, consumedNeurons) IN
  [ reached |-> TRUE,
    allowed |-> ~NGt(newTotal, NLimit),
    consumed |-> consumedNeurons,
    remaining |-> NSub(NLimit, newTotal),
    dailyLimit |-> DAILY_NEURON_LIMIT,
    message |-> "" ]

\* LimitCheck with the test left out.
LimitCheckAlwaysAllowed(currentNeurons, consumedNeurons) ==
  [ reached |-> TRUE,
    allowed |-> TRUE,
    consumed |-> consumedNeurons,
    remaining |-> NZero,
    dailyLimit |-> DAILY_NEURON_LIMIT,
    message |-> "" ]

\* The value the call returns for what it read and what the request cost.
LimitCheck(currentNeurons, consumedNeurons) ==
  LET newTotal == NAdd(currentNeurons, consumedNeurons) IN
  IF NGt(newTotal, NLimit)
  THEN [ reached |-> TRUE,
         allowed |-> FALSE,
         consumed |-> consumedNeurons,
         remaining |-> IF NGt(currentNeurons, NLimit) THEN NZero
                       ELSE NSub(NLimit, currentNeurons),
         dailyLimit |-> DAILY_NEURON_LIMIT,
         message |-> "Batas harian neuron terlampaui." ]
  ELSE [ reached |-> TRUE,
         allowed |-> TRUE,
         consumed |-> consumedNeurons,
         remaining |-> NSub(NLimit, newTotal),
         dailyLimit |-> DAILY_NEURON_LIMIT,
         message |-> "" ]

\* Persisted with the put moved in front of the limit test.
PersistedBeforeTest(store, key, check, newTotal, putOk) ==
  IF putOk THEN [ store EXCEPT ![key] = NumberToString(newTotal) ] ELSE store

\* Persisted with the cost of the call put in place of the new total.
PersistedCostOnly(store, key, check, newTotal, putOk) ==
  IF check.allowed /\ putOk
  THEN [ store EXCEPT ![key] = NumberToString(check.consumed) ]
  ELSE store

\* Persisted with the new total stored although the put failed.
PersistedDespiteFailure(store, key, check, newTotal, putOk) ==
  IF check.allowed
  THEN [ store EXCEPT ![key] = NumberToString(newTotal) ]
  ELSE store

\* The store once the call has returned: only an admitted call puts, and a
\* put that fails leaves the store as it was.
Persisted(store, key, check, newTotal, putOk) ==
  IF check.allowed /\ putOk
  THEN [ store EXCEPT ![key] = NumberToString(newTotal) ]
  ELSE store

(***************************************************************************)
(* fetchHandler.                                                           *)
(***************************************************************************)
\* The handler from the corpus check on, for a request whose loadQuranData
\* returned `data`: up to its response, or up to the call of env.AI.run.
\* The result names the handler's next position, its locals and response.
Stay(position, locals, response) ==
  [ pc |-> position, loc |-> locals, resp |-> response ]

\* AskRoute with the length test left out: a question of any length goes
\* on to the ranking and to env.AI.run.
AskRouteNoLengthCheck(locals, data) ==
  LET body == locals.request.body
      question == body.question
      language == IF body.language = "" THEN "id" ELSE body.language
  IN  IF ~body.json
      THEN Stay("done", locals, InternalError("Unexpected end of JSON input"))
      ELSE IF question = ""
      THEN Stay("done", locals,
                Json(400, [ kind |-> "error", error |-> "Question is required" ]))
      ELSE Stay("ai",
                [ locals EXCEPT !.question = question,
                                !.language = language,
                                !.ranked = TRUE,
                                !.relevantVerses =
                                   IF question \in Questions THEN Ranked[data][question]
                                   ELSE <<>>,
                                !.aiCalled = TRUE ],
                NoResponse)

AskRoute(locals, data) ==
  LET body == locals.request.body
      question == body.question
      language == IF body.language = "" THEN "id" ELSE body.language
  IN  IF ~body.json
      THEN Stay("done", locals, InternalError("Unexpected end of JSON input"))
      ELSE IF question = ""
      THEN Stay("done", locals,
                Json(400, [ kind |-> "error", error |-> "Question is required" ]))
      ELSE IF Len(question) > MaxQuestionLength
      THEN Stay("done", locals,
                Json(400, [ kind |-> "error", error |-> "Pertanyaan terlalu panjang" ]))
      ELSE LET relevantVerses == Ranked[data][question]
           IN  Stay("ai",
                    [ locals EXCEPT !.question = question,
                                    !.language = language,
                                    !.ranked = TRUE,
                                    !.relevantVerses = relevantVerses,
                                    !.aiCalled = TRUE ],
                    NoResponse)

SearchRoute(locals, data) ==
  LET query == locals.request.q
      results == Found[data][query][locals.request.limit]
  IN  IF query = ""
      THEN Stay("done", locals,
                Json(400, [ kind |-> "error", error |-> "Query parameter \"q\" is required" ]))
      ELSE Stay("done",
                [ locals EXCEPT !.ranked = TRUE, !.relevantVerses = results ],
                Json(200, [ kind |-> "search", query |-> query,
                            total_results |-> Len(results), results |-> results ]))

ChatRoute(locals) ==
  IF ~locals.request.body.json
  THEN Stay("done", locals, InternalError("Unexpected end of JSON input"))
  ELSE Stay("chat", [ locals EXCEPT !.aiCalled = TRUE ], NoResponse)

Route(received, data) ==
  LET request == received.request
      locals == [ received EXCEPT !.data = data ]
  IN
  IF data = <<>>
  THEN Stay("done", locals, InternalError("Quran data not available"))
  ELSE IF request.path = "/api/surah" /\ request.method = "GET"
  THEN Stay("done", locals,
            Json(200, [ kind |-> "surahs",
                        surahs |-> [ i \in 1..Len(data) |->
                                       [ id |-> data[i].id, name |-> data[i].name ] ] ]))
  ELSE IF request.path = "/api/search" /\ request.method = "GET"
  THEN SearchRoute(locals, data)
  ELSE IF request.path = "/api/ask" /\ request.method = "POST"
  THEN AskRoute(locals, data)
  ELSE IF request.path = "/api/chat" /\ request.method = "POST"
  THEN ChatRoute(locals)
  ELSE Stay("done", locals, Json(404, [ kind |-> "error", error |-> "Endpoint not found" ]))

\* A request arrives: the handler runs to its first await that another
\* handler can interleave with, or to its response.
Receive(r, request, budget) ==
  /\ pc[r] \in { "idle", "done" }
  /\ calls < budget
  /\ calls' = calls + 1
  /\ LET locals == [ NoLocals EXCEPT !.request = request ]
          next == IF request.method = "OPTIONS"
                  THEN Stay("done", locals, Json(200, [ kind |-> "preflight" ]))
                  ELSE IF request.path = "/api/health"
                  THEN Stay("done", locals, Json(200, [ kind |-> "health" ]))
                  ELSE IF quranData = <<>>
                  THEN Stay("fetch", locals, NoResponse)
                  ELSE Route(locals, quranData)
     IN  /\ pc' = [ pc EXCEPT ![r] = next.pc ]
         /\ loc' = [ loc EXCEPT ![r] = next.loc ]
         /\ resp' = [ resp EXCEPT ![r] = next.resp ]
  /\ UNCHANGED << now, kv, quranData, charged, disturbed >>

\* loadQuranData resumes after its fetch: it assigns the cache whatever the
\* cache holds by now, and the handler goes on with the assigned value.
FetchDone(r, outcome) ==
  /\ pc[r] = "fetch"
  /\ quranData' = LoadedData(outcome)
  /\ LET next == Route(loc[r], quranData')
     IN  /\ pc' = [ pc EXCEPT ![r] = next.pc ]
         /\ loc' = [ loc EXCEPT ![r] = next.loc ]
         /\ resp' = [ resp EXCEPT ![r] = next.resp ]
  /\ UNCHANGED << now, kv, calls, charged, disturbed >>

\* /api/chat: env.AI.run resolves, and its value is the response.
ChatReturn(r, aiResponse) ==
  /\ pc[r] = "chat"
  /\ pc' = [ pc EXCEPT ![r] = "done" ]
  /\ loc' = [ loc EXCEPT ![r].aiReturned = TRUE, ![r].aiResponse = aiResponse ]
  /\ resp' = [ resp EXCEPT ![r] = Json(200, [ kind |-> "chat", response |-> aiResponse ]) ]
  /\ UNCHANGED << now, kv, quranData, calls, charged, disturbed >>

\* /api/chat: env.AI.run rejects; only the outer catch is around it.
ChatRaise(r) ==
  /\ pc[r] = "chat"
  /\ pc' = [ pc EXCEPT ![r] = "done" ]
  /\ resp' = [ resp EXCEPT ![r] = InternalError("AI error") ]
  /\ UNCHANGED << now, kv, quranData, loc, calls, charged, disturbed >>

\* /api/ask: env.AI.run rejects; the inner catch answers with the verses.
AIRaise(r) ==
  /\ pc[r] = "ai"
  /\ pc' = [ pc EXCEPT ![r] = "done" ]
  /\ resp' = [ resp EXCEPT ![r] =
        Json(200, AIErrorResponse(loc[r].question, loc[r].relevantVerses, loc[r].language)) ]
  /\ UNCHANGED << now, kv, quranData, loc, calls, charged, disturbed >>

\* usage?.prompt_tokens || estimate: a figure of 0 counts as missing.
TokensOr(reported, figure, estimate) ==
  IF reported /\ figure # 0 THEN figure ELSE estimate

\* AIReturn with the answer sent before the quota is checked.
AIReturnUnmetered(r, aiResponse) ==
  /\ pc[r] = "ai"
  /\ LET aiAnswer == OrElse(aiResponse.response,
                            OrElse(aiResponse.content, OrElse(aiResponse.answer, "")))
     IN  /\ loc' = [ loc EXCEPT ![r].aiReturned = TRUE,
                                 ![r].aiResponse = aiResponse,
                                 ![r].aiAnswer = aiAnswer ]
         /\ resp' = [ resp EXCEPT ![r] =
               Json(200, formatResponse(aiAnswer, loc[r].relevantVerses, loc[r].language,
                                        [ tokens |-> [ input |-> 0, output |-> 0, total |-> 0 ] ])) ]
  /\ pc' = [ pc EXCEPT ![r] = "done" ]
  /\ UNCHANGED << now, kv, quranData, calls, charged, disturbed >>

\* /api/ask: env.AI.run resolves; the handler extracts the answer and the
\* token counts and enters checkAndUpdateNeuronLimit, which derives the
\* day key and the cost and awaits the read of the counter.
AIReturn(r, aiResponse) ==
  /\ pc[r] = "ai"
  /\ LET aiAnswer == OrElse(aiResponse.response,
                            OrElse(aiResponse.content, OrElse(aiResponse.answer, "")))
         systemPrompt == SYSTEM_PROMPTS(loc[r].language)
         userPrompt == createQuranPrompt(loc[r].question, loc[r].relevantVerses,
                                         loc[r].language)
         promptTokens == TokensOr(aiResponse.usage, aiResponse.prompt_tokens,
                                  estimateTokens(systemPrompt \o userPrompt))
         completionTokens == TokensOr(aiResponse.usage, aiResponse.completion_tokens,
                                      estimateTokens(aiAnswer))
     IN  loc' = [ loc EXCEPT ![r].aiReturned = TRUE,
                             ![r].aiResponse = aiResponse,
                             ![r].aiAnswer = aiAnswer,
                             ![r].promptTokens = promptTokens,
                             ![r].completionTokens = completionTokens,
                             ![r].today = now,
                             ![r].consumedNeurons =
                                calculateNeuronsConsumed(promptTokens, completionTokens) ]
  /\ pc' = [ pc EXCEPT ![r] = "kvget" ]
  /\ UNCHANGED << now, kv, quranData, resp, calls, charged, disturbed >>

\* Another call has read the counter of `key` and not yet written it.
ReadInFlight(r, key) ==
  \E o \in Reqs \ {r} : pc[o] = "kvput" /\ loc[o].today = key

\* checkAndUpdateNeuronLimit resumes after NEURON_LIMITER.get (readOk: the
\* get resolved).  Over the limit it returns at once and the handler sends
\* the verse-only response; otherwise it awaits the put.
KVGet(r, readOk) ==
  /\ pc[r] = "kvget"
  /\ LET key == loc[r].today
         currentNeurons == CurrentNeurons(readOk, kv[key])
         check == LimitCheck(currentNeurons, loc[r].consumedNeurons)
         newTotal == NAdd(currentNeurons, loc[r].consumedNeurons)
         locals == [ loc[r] EXCEPT !.kvRead = TRUE,
                                   !.readFailed = ~readOk,
                                   !.stored = kv[key],
                                   !.currentNeurons = currentNeurons,
                                   !.newTotal = newTotal ]
     IN  /\ disturbed' = [ disturbed EXCEPT ![key] = @ \/ ~readOk \/ ReadInFlight(r, key) ]
         /\ IF check.allowed
            THEN /\ pc' = [ pc EXCEPT ![r] = "kvput" ]
                 /\ loc' = [ loc EXCEPT ![r] = locals ]
                 /\ resp' = resp
                 /\ kv' = kv
            ELSE /\ pc' = [ pc EXCEPT ![r] = "done" ]
                 /\ kv' = Persisted(kv, key, check, newTotal, TRUE)
                 /\ loc' = [ loc EXCEPT ![r] = [ locals EXCEPT !.limitCheck = check ] ]
                 /\ resp' = [ resp EXCEPT ![r] =
                       Json(200, LimitExceededResponse(locals.question, locals.relevantVerses,
                                                       locals.language, check)) ]
  /\ UNCHANGED << now, quranData, calls, charged >>

\* KVPut with the key derived again when the put is made.
KVPutOnCurrentDay(r, putOk) ==
  /\ pc[r] = "kvput"
  /\ LET check == LimitCheck(loc[r].currentNeurons, loc[r].consumedNeurons)
     IN  /\ kv' = Persisted(kv, now, check, loc[r].newTotal, putOk)
         /\ charged' = [ charged EXCEPT ![now] = NAdd(@, loc[r].consumedNeurons) ]
         /\ disturbed' = [ disturbed EXCEPT ![now] = @ \/ ~putOk ]
         /\ loc' = [ loc EXCEPT ![r].kvPut = TRUE, ![r].putFailed = ~putOk,
                                 ![r].limitCheck = check ]
         /\ resp' = [ resp EXCEPT ![r] =
               Json(200, formatResponse(loc[r].aiAnswer, loc[r].relevantVerses,
                      loc[r].language,
                      [ tokens |-> [ input |-> loc[r].promptTokens,
                                     output |-> loc[r].completionTokens,
                                     total |-> loc[r].promptTokens + loc[r].completionTokens ],
                        neurons |-> [ consumed |-> check.consumed,
                                      remaining |-> check.remaining,
                                      daily_limit |-> check.dailyLimit ] ])) ]
  /\ pc' = [ pc EXCEPT ![r] = "done" ]
  /\ UNCHANGED << now, quranData, calls >>

\* checkAndUpdateNeuronLimit resumes after NEURON_LIMITER.put (putOk: the put
\* resolved) and returns allowed; the handler sends the model's answer.
KVPut(r, putOk) ==
  /\ pc[r] = "kvput"
  /\ LET key == loc[r].today
         check == LimitCheck(loc[r].currentNeurons, loc[r].consumedNeurons)
         locals == [ loc[r] EXCEPT !.kvPut = TRUE,
                                   !.putFailed = ~putOk,
                                   !.limitCheck = check ]
     IN  /\ kv' = Persisted(kv, key, check, loc[r].newTotal, putOk)
         /\ charged' = [ charged EXCEPT ![key] = NAdd(@, loc[r].consumedNeurons) ]
         /\ disturbed' = [ disturbed EXCEPT ![key] = @ \/ ~putOk ]
         /\ loc' = [ loc EXCEPT ![r] = locals ]
         /\ resp' = [ resp EXCEPT ![r] =
               Json(200, formatResponse(locals.aiAnswer, locals.relevantVerses,
                      locals.language,
                      [ tokens |-> [ input |-> locals.promptTokens,
                                     output |-> locals.completionTokens,
                                     total |-> locals.promptTokens + locals.completionTokens ],
                        neurons |-> [ consumed |-> check.consumed,
                                      remaining |-> check.remaining,
                                      daily_limit |-> check.dailyLimit ] ])) ]
  /\ pc' = [ pc EXCEPT ![r] = "done" ]
  /\ UNCHANGED << now, quranData, calls >>

\* Midnight UTC passes.
Tick ==
  /\ now < MaxDay
  /\ now' = now + 1
  /\ UNCHANGED << kv, quranData, pc, loc, resp, calls, charged, disturbed >>

\* expirationTtl: a counter disappears 86400 s after its last put, which is
\* never on the day it was put.
Expire(d) ==
  /\ d < now
  /\ kv[d] # Null
  /\ kv' = [ kv EXCEPT ![d] = Null ]
  /\ UNCHANGED << now, quranData, pc, loc, resp, calls, charged, disturbed >>

Next ==
  \/ \E r \in Reqs, request \in Requests : Receive(r, request, MaxCalls)
  \/ \E r \in Reqs, outcome \in FetchOutcomes : FetchDone(r, outcome)
  \/ \E r \in Reqs, aiResponse \in AIResponses : AIReturn(r, aiResponse)
  \/ \E r \in Reqs : AIRaise(r)
  \/ \E r \in Reqs, aiResponse \in AIResponses : ChatReturn(r, aiResponse)
  \/ \E r \in Reqs : ChatRaise(r)
  \/ \E r \in Reqs, readOk \in BOOLEAN : KVGet(r, readOk)
  \/ \E r \in Reqs, putOk \in BOOLEAN : KVPut(r, putOk)
  \/ Tick
  \/ \E d \in Days : Expire(d)

Spec == Init /\ [][Next]_vars

(***************************************************************************)
(* The usage meter under load: only /api/ask requests with a valid         *)
(* question, whose gateway answers report their usage, over more requests  *)
(* than Spec takes.                                                        *)
(***************************************************************************)
MeterRequests == { Request("POST", "/api/ask", Body("Apa itu sabar?", "")) }

MeterAIResponses ==
  { a \in AIResponses : a.usage /\ a.prompt_tokens > 0 /\ ~NGt(calculateNeuronsConsumed(a.prompt_tokens,
                                                                 a.completion_tokens), NLimit) }

MeterNext ==
  \/ \E r \in Reqs, request \in MeterRequests : Receive(r, request, MeterCalls)
  \/ \E r \in Reqs, outcome \in FetchOutcomes : FetchDone(r, outcome)
  \/ \E r \in Reqs, aiResponse \in MeterAIResponses : AIReturn(r, aiResponse)
  \/ \E r \in Reqs : AIRaise(r)
  \/ \E r \in Reqs, readOk \in BOOLEAN : KVGet(r, readOk)
  \/ \E r \in Reqs, putOk \in BOOLEAN : KVPut(r, putOk)
  \/ Tick
  \/ \E d \in Days : Expire(d)

MeterSpec == Init /\ [][MeterNext]_vars

(***************************************************************************)
(* The ranker behind /api/search: every search of the model over every     *)
(* corpus, with concurrent first accesses of the cache.                    *)
(***************************************************************************)
SearchCalls == 2      \* requests received in one behaviour of SearchSpec

SearchNext ==
  \/ \E r \in Reqs, request \in SearchRequests : Receive(r, request, SearchCalls)
  \/ \E r \in Reqs, outcome \in FetchOutcomes : FetchDone(r, outcome)

SearchSpec == Init /\ [][SearchNext]_vars

(***************************************************************************)
(* Properties.                                                             *)
(***************************************************************************)
\* The number a stored value stands for: 0 while the key is missing.
StoredValue(stored) == IF stored = Null THEN NZero ELSE stored.digits

CounterValue(d) == StoredValue(kv[d])

\* Handler r's call of checkAndUpdateNeuronLimit has returned denied.
Denied(r) == loc[r].limitCheck.reached /\ ~loc[r].limitCheck.allowed

\* Handler r's call of checkAndUpdateNeuronLimit has returned allowed.
Admitted(r) == loc[r].limitCheck.reached /\ loc[r].limitCheck.allowed

\* In this step handler r's call of checkAndUpdateNeuronLimit returns.
Returns(r) == ~loc[r].limitCheck.reached /\ loc'[r].limitCheck.reached

\* C1: a denied call of checkAndUpdateNeuronLimit never writes to the store:
\* the step in which a call returns allowed = false leaves every counter as
\* it was, and the call has made no put.  So after any run of denied calls
\* the counter is what it was before the first of them.
C1_DeniedCallNeverWrites ==
  [][ \A r \in Reqs :
        (Returns(r) /\ ~loc'[r].limitCheck.allowed)
          => (kv' = kv /\ ~loc'[r].kvPut /\ charged' = charged) ]_vars

\* Two calls were denied on the same day key, one after the other, and the
\* counter is still the value both of them read.
C1_Witness ==
  \E r \in Reqs, o \in Reqs :
    /\ r # o
    /\ Denied(r) /\ Denied(o)
    /\ loc[r].today = loc[o].today
    /\ ~loc[r].readFailed /\ ~loc[o].readFailed
    /\ loc[r].stored # Null
    /\ loc[r].stored = loc[o].stored
    /\ kv[loc[r].today] = loc[r].stored

\* The limit test on what handler r read and what its request cost.
WithinLimit(r) ==
  ~NGt(NAdd(loc'[r].currentNeurons, loc'[r].consumedNeurons), NLimit)

\* C2 as claimed: every call with current = x and cost c, x + c <= 10000,
\* returns allowed = true and leaves x + c as the day's persisted counter.
C2_AdmittedCallPersistsSum ==
  [][ \A r \in Reqs :
        (Returns(r) /\ WithinLimit(r))
          => /\ loc'[r].limitCheck.allowed
             /\ kv'[loc'[r].today] =
                  NumberToString(NAdd(loc'[r].currentNeurons, loc'[r].consumedNeurons)) ]_vars

\* C2 as amended: every call with current = x and cost c, x + c <= 10000,
\* returns allowed = true; when its put succeeds the day's persisted counter
\* is exactly x + c as the call returns, and when its put fails the counter
\* is left as it was.
C2_AdmittedCallPersistsSumIfPutSucceeds ==
  [][ \A r \in Reqs :
        (Returns(r) /\ WithinLimit(r))
          => /\ loc'[r].limitCheck.allowed
             /\ ~loc'[r].putFailed
                  => kv'[loc'[r].today] =
                       NumberToString(NAdd(loc'[r].currentNeurons, loc'[r].consumedNeurons))
             /\ loc'[r].putFailed => kv' = kv ]_vars

\* A call read a counter above 0, was admitted with x + c exactly the limit,
\* and its put succeeded: the counter is the limit.
C2_Witness ==
  \E r \in Reqs :
    /\ Admitted(r)
    /\ ~loc[r].readFailed /\ ~loc[r].putFailed
    /\ NGt(loc[r].currentNeurons, NZero)
    /\ NAdd(loc[r].currentNeurons, loc[r].consumedNeurons) = NLimit
    /\ kv[loc[r].today] = NumberToString(NLimit)

\* In this step handler r's call resumes from a read that resolved, with a
\* request of positive cost, and the counter it read is at or above the cap.
ReadsAtCap(r) ==
  /\ ~loc[r].kvRead /\ loc'[r].kvRead /\ ~loc'[r].readFailed
  /\ NGt(loc[r].consumedNeurons, NZero)
  /\ NGe(CounterValue(loc[r].today), NLimit)

\* In this step the current day's counter drops from the cap to below it.
DropsBelowCap ==
  /\ now' = now
  /\ NGe(CounterValue(now), NLimit)
  /\ ~NGe(StoredValue(kv'[now]), NLimit)

\* C3 as claimed: once the day's counter has reached the cap it stays at or
\* above the cap for the rest of the day, and every later call on that day
\* key with positive cost is denied.
C3_OverLimitIsPermanent ==
  [][ /\ ~DropsBelowCap
      /\ \A r \in Reqs :
           ( /\ ~loc[r].kvRead /\ loc'[r].kvRead
             /\ NGt(loc[r].consumedNeurons, NZero)
             /\ NGe(CounterValue(loc[r].today), NLimit) )
             => (loc'[r].limitCheck.reached /\ ~loc'[r].limitCheck.allowed) ]_vars

\* C3 as amended: once the day's counter has reached the cap, every later
\* call on that day key with positive cost whose read of the counter succeeds
\* is denied and leaves the counter as it is; within the day the counter
\* drops below the cap again only by the put of a call whose read failed or
\* was made before the counter reached its present value.
C3_OverLimitHoldsForCallsThatReadIt ==
  [][ /\ \A r \in Reqs :
           ReadsAtCap(r)
             => (loc'[r].limitCheck.reached /\ ~loc'[r].limitCheck.allowed /\ kv' = kv)
      /\ DropsBelowCap
           => \E r \in Reqs :
                /\ pc[r] = "kvput" /\ pc'[r] = "done"
                /\ loc[r].today = now
                /\ (loc[r].readFailed \/ loc[r].stored # kv[now]) ]_vars

\* A call read a counter standing at the cap and was denied; the counter is
\* still at the cap.
C3_Witness ==
  \E r \in Reqs :
    /\ Denied(r)
    /\ ~loc[r].readFailed
    /\ loc[r].stored = NumberToString(NLimit)
    /\ loc[r].today = now
    /\ kv[now] = NumberToString(NLimit)

\* C4: the read-then-write of checkAndUpdateNeuronLimit is not atomic.  Every
\* admitted call passed the limit test on the value it read itself, and the
\* admitted total of the current day exceeds the cap only after a read that
\* interleaved with another call or a storage failure; the witness is the
\* interleaving in which two calls read the same value and are both admitted
\* although the value plus both costs exceeds the cap.
C4_AdmissionRestsOnOwnRead ==
  /\ \A r \in Reqs :
       Admitted(r)
         => /\ loc[r].currentNeurons = CurrentNeurons(~loc[r].readFailed, loc[r].stored)
            /\ ~NGt(NAdd(loc[r].currentNeurons, loc[r].consumedNeurons), NLimit)
  /\ NGt(charged[now], NLimit) => disturbed[now]

\* Two calls on the same day key both read the same counter value, no
\* storage operation failed, both returned allowed = true, and the value
\* plus the two costs is above the cap.
C4_Witness ==
  \E r \in Reqs, o \in Reqs :
    /\ r # o
    /\ Admitted(r) /\ Admitted(o)
    /\ loc[r].today = loc[o].today
    /\ ~loc[r].readFailed /\ ~loc[o].readFailed
    /\ ~loc[r].putFailed /\ ~loc[o].putFailed
    /\ loc[r].stored = loc[o].stored
    /\ NGt(NAdd(NAdd(loc[r].currentNeurons, loc[r].consumedNeurons),
                 loc[o].consumedNeurons), NLimit)

ValidAsk(r) == loc[r].request.path = "/api/ask" /\ loc[r].aiCalled

\* The projection of the top-3 ranking of r's question over the corpus r got.
RankedVersesData(r) == VersesData(Ranked[loc[r].data][loc[r].question])

LimitExceededAnswer(question, language) ==
  IF language = "id"
  THEN "Batas harian neuron terlampaui. Berikut ayat-ayat terkait \"" \o question \o "\":"
  ELSE "Daily neuron limit exceeded. Here are relevant Quran verses about \""
         \o question \o "\":"

\* C6: in every /api/ask request that passes validation the quota check
\* comes after env.AI.run has returned and before any response: the counter
\* is read only once the model has answered, no response exists while the
\* check is under way, and a request whose model call returned has no
\* response before its check has returned.  When the check denies, the
\* response carries the templated message and the ranked verses, never the
\* model's answer.
C6_QuotaCheckAfterModelBeforeResponse ==
  \A r \in Reqs :
    /\ loc[r].kvRead => (ValidAsk(r) /\ loc[r].aiReturned)
    /\ pc[r] \in { "kvget", "kvput" } => (loc[r].aiReturned /\ resp[r] = NoResponse)
    /\ (ValidAsk(r) /\ loc[r].aiReturned /\ resp[r] # NoResponse)
         => (loc[r].kvRead /\ loc[r].limitCheck.reached)
    /\ (ValidAsk(r) /\ resp[r] # NoResponse /\ resp[r].body.success)
         => Admitted(r)
    /\ Denied(r)
         => /\ resp[r].status = 200
            /\ ~resp[r].body.success
            /\ resp[r].body.answer = LimitExceededAnswer(loc[r].question, loc[r].language)
            /\ resp[r].body.answer # loc[r].aiAnswer
            /\ resp[r].body.verses_data = RankedVersesData(r)

\* The model answered, the check denied, and the response went out with
\* verses and without the answer.
C6_Witness ==
  \E r \in Reqs :
    /\ Denied(r)
    /\ loc[r].aiAnswer # ""
    /\ resp[r].body.verses_data # <<>>
    /\ resp[r].body.answer # loc[r].aiAnswer

\* The response of handler r after this step is the quota-denied response:
\* success = false, error = "neuron_limit_exceeded", the projection of the
\* ranked verses, and limit_info.remaining >= 0.
LimitExceededSent(r) ==
  /\ resp'[r].status = 200
  /\ resp'[r].body.kind = "ask"
  /\ ~resp'[r].body.success
  /\ resp'[r].body.error = "neuron_limit_exceeded"
  /\ resp'[r].body.verses_data = VersesData(Ranked[loc'[r].data][loc'[r].question])
  /\ NGe(resp'[r].body.limit_info.remaining, NZero)

\* The day key handler r's request is metered under.
DayKey(r) == IF loc[r].today = 0 THEN now ELSE loc[r].today

\* C7 as claimed: whenever the stored daily usage is already at or above the
\* cap when an /api/ask request with a valid question is processed, the
\* response is the quota-denied response.  (A request that has read the
\* counter counts only if what it read was at or above the cap.)
C7_AtCapAlwaysDenied ==
  [][ \A r \in Reqs :
        ( /\ ValidAsk(r)
          /\ resp[r] = NoResponse /\ resp'[r] # NoResponse
          /\ NGe(CounterValue(DayKey(r)), NLimit)
          /\ loc[r].kvRead => NGe(StoredValue(loc[r].stored), NLimit) )
          => LimitExceededSent(r) ]_vars

\* C7 as amended: whenever env.AI.run has returned for an /api/ask request
\* with a valid question, and the read of the day's counter succeeds and finds
\* it at or above the cap, the response is the quota-denied response.
C7_AtCapDeniedWhenModelAnswersAndReadSucceeds ==
  [][ \A r \in Reqs :
        ( /\ ~loc[r].kvRead /\ loc'[r].kvRead /\ ~loc'[r].readFailed
          /\ NGe(CounterValue(loc[r].today), NLimit) )
          => (pc'[r] = "done" /\ LimitExceededSent(r)) ]_vars

\* A request found the counter at the cap and got the quota-denied response
\* with verses and remaining = 0.
C7_Witness ==
  \E r \in Reqs :
    /\ Denied(r)
    /\ ~loc[r].readFailed
    /\ NGe(StoredValue(loc[r].stored), NLimit)
    /\ resp[r].body.error = "neuron_limit_exceeded"
    /\ resp[r].body.verses_data # <<>>
    /\ resp[r].body.limit_info.remaining = NZero

\* C8: when env.AI.run raises during an /api/ask request the response has
\* success = false, the service-unavailable error, the verses ranked before
\* the call and no limit_info; the quota check is never reached, so the
\* request neither reads nor writes the store and no counter changes.
C8_ModelFailureSkipsQuota ==
  [][ \A r \in Reqs :
        (pc[r] = "ai" /\ pc'[r] = "done" /\ ~loc'[r].aiReturned)
          => /\ resp'[r].status = 200
             /\ ~resp'[r].body.success
             /\ resp'[r].body.error = "AI service temporarily unavailable"
             /\ resp'[r].body.verses_data = VersesData(Ranked[loc[r].data][loc[r].question])
             /\ "limit_info" \notin DOMAIN resp'[r].body
             /\ ~loc'[r].kvRead /\ ~loc'[r].kvPut /\ ~loc'[r].limitCheck.reached
             /\ kv' = kv /\ charged' = charged ]_vars

\* The model call of a request with matching verses raised while a counter
\* was stored: the response carries the verses and the counter stands.
C8_Witness ==
  \E r \in Reqs :
    /\ pc[r] = "done" /\ ValidAsk(r) /\ ~loc[r].aiReturned
    /\ resp[r].body.error = "AI service temporarily unavailable"
    /\ resp[r].body.verses_data # <<>>
    /\ kv[now] # Null

\* C9: for a fixed question and corpus the verses_data of an /api/ask
\* response is the same in all three outcomes: the projection of the top-3
\* ranked verses, whatever the gateway, the quota and the store did, and
\* non-empty whenever a verse matches.
C9_VersesDataSameInEveryOutcome ==
  \A r \in Reqs :
    (ValidAsk(r) /\ resp[r] # NoResponse)
      => /\ resp[r].body.kind = "ask"
         /\ resp[r].body.verses_data = RankedVersesData(r)
         /\ Len(resp[r].body.verses_data) <= AskLimit
         /\ HasMatch[loc[r].data][loc[r].question] => resp[r].body.verses_data # <<>>

\* The same question over the same corpus was answered once with the
\* model's answer and once without (denied, or the model call raised), with
\* the same non-empty verses_data.
C9_Witness ==
  \E r \in Reqs, o \in Reqs :
    /\ r # o
    /\ ValidAsk(r) /\ ValidAsk(o)
    /\ loc[r].question = loc[o].question /\ loc[r].data = loc[o].data
    /\ Admitted(r) /\ resp[r].body.success
    /\ resp[o] # NoResponse /\ ~resp[o].body.success
    /\ resp[r].body.verses_data = resp[o].body.verses_data
    /\ resp[r].body.verses_data # <<>>

\* C10, for the requests whose body parses: only an unavailable corpus makes
\* the handler answer 5xx; an exception from the inference gateway, a storage
\* failure and an exceeded quota all end in a non-5xx response.
C10_Only5xxIsCorpusUnavailable ==
  \A r \in Reqs :
    (resp[r] # NoResponse /\ resp[r].status >= 500 /\ loc[r].request.body.json)
      => loc[r].data = <<>>

\* Handler r serves an /api/ask request whose body parses and whose question
\* is longer than 500 characters.
LongAsk(r) ==
  /\ loc[r].request.path = "/api/ask" /\ loc[r].request.method = "POST"
  /\ loc[r].request.body.json
  /\ Len(loc[r].request.body.question) > MaxQuestionLength

\* C11: an /api/ask request whose question is longer than 500 characters is
\* answered with an error response (400 once the corpus is there) and never
\* gets to the ranking, to env.AI.run or to the usage store.
C11_LongQuestionRejectedBeforeWork ==
  \A r \in Reqs :
    LongAsk(r)
      => /\ ~loc[r].ranked /\ loc[r].relevantVerses = <<>>
         /\ ~loc[r].aiCalled /\ ~loc[r].aiReturned
         /\ ~loc[r].kvRead /\ ~loc[r].kvPut /\ ~loc[r].limitCheck.reached
         /\ pc[r] \in { "fetch", "done" }
         /\ resp[r] # NoResponse
              => /\ resp[r].body.kind = "error"
                 /\ resp[r].status \in { 400, 500 }
                 /\ loc[r].data # <<>>
                      => /\ resp[r].status = 400
                         /\ resp[r].body.error = "Pertanyaan terlalu panjang"

\* A question of 504 characters was rejected with status 400 over a loaded
\* corpus in which the question's word has matches.
C11_Witness ==
  \E r \in Reqs :
    /\ LongAsk(r)
    /\ pc[r] = "done"
    /\ resp[r].status = 400
    /\ loc[r].data = MapSurahs(RemoteSurahs)
    /\ ~loc[r].ranked /\ ~loc[r].aiCalled

\* C12: once the corpus cache quranData is non-empty, no step assigns it a
\* different value or clears it, whatever the interleaving of the
\* loadQuranData calls.
C12_CacheNeverReassigned ==
  [][ quranData # <<>> => quranData' = quranData ]_vars

\* Handler r's read of the counter failed or found no value.
ZeroRead(r) == loc[r].kvRead /\ (loc[r].readFailed \/ loc[r].stored = Null)

\* C13: a failing or empty read of the counter raises nothing: the call goes
\* on with current = 0, decides admission and computes remaining from
\* current = 0, and the request ends in its normal 200 response.
C13_FailedReadCountsAsZero ==
  \A r \in Reqs :
    ZeroRead(r)
      => /\ loc[r].currentNeurons = NZero
         /\ loc[r].newTotal = loc[r].consumedNeurons
         /\ pc[r] \in { "kvput", "done" }
         /\ pc[r] = "kvput" <=> (resp[r] = NoResponse)
         /\ pc[r] = "kvput" => ~NGt(loc[r].consumedNeurons, NLimit)
         /\ pc[r] = "done"
              => /\ loc[r].limitCheck.reached
                 /\ loc[r].limitCheck.allowed = ~NGt(loc[r].consumedNeurons, NLimit)
                 /\ loc[r].limitCheck.remaining =
                      IF NGt(loc[r].consumedNeurons, NLimit) THEN NLimit
                      ELSE NSub(NLimit, loc[r].consumedNeurons)
                 /\ resp[r].status = 200
                 /\ resp[r].body.kind = "ask"
                 /\ resp[r].body.success = loc[r].limitCheck.allowed

\* A read failed while the key held a counter above 0; the call was admitted
\* as from 0 and the request got its answer.
C13_Witness ==
  \E r \in Reqs :
    /\ loc[r].kvRead /\ loc[r].readFailed
    /\ loc[r].stored # Null /\ NGt(StoredValue(loc[r].stored), NZero)
    /\ pc[r] = "done" /\ Admitted(r)
    /\ resp[r].body.success
    /\ loc[r].limitCheck.remaining = NSub(NLimit, loc[r].consumedNeurons)

\* C14: when the put of an admitted call fails, the call still returns
\* allowed = true with remaining = dailyLimit - newTotal, the request still
\* gets the success response with the model's answer, and every counter is
\* left at its previous value.
C14_FailedPutStillAnswers ==
  [][ \A r \in Reqs :
        (pc[r] = "kvput" /\ pc'[r] = "done" /\ loc'[r].putFailed)
          => /\ loc'[r].limitCheck.reached /\ loc'[r].limitCheck.allowed
             /\ loc'[r].limitCheck.remaining = NSub(NLimit, loc[r].newTotal)
             /\ loc[r].newTotal = NAdd(loc[r].currentNeurons, loc[r].consumedNeurons)
             /\ resp'[r].status = 200
             /\ resp'[r].body.kind = "ask"
             /\ resp'[r].body.success
             /\ resp'[r].body.answer = loc[r].aiAnswer
             /\ resp'[r].body.usage.neurons.remaining = loc'[r].limitCheck.remaining
             /\ kv' = kv ]_vars

\* The put of an admitted call failed over a stored counter: the request has
\* the model's answer and the counter is the value the call read.
C14_Witness ==
  \E r \in Reqs :
    /\ Admitted(r) /\ loc[r].putFailed /\ ~loc[r].readFailed
    /\ loc[r].stored # Null
    /\ kv[loc[r].today] = loc[r].stored
    /\ resp[r].body.success
    /\ resp[r].body.answer = loc[r].aiAnswer /\ loc[r].aiAnswer # ""

\* C15: every result of checkAndUpdateNeuronLimit has
\* 0 <= remaining <= dailyLimit; a denied result reports
\* max(0, dailyLimit - current) and an admitted one dailyLimit - newTotal.
C15_RemainingWithinLimit ==
  \A r \in Reqs :
    loc[r].limitCheck.reached
      => LET check == loc[r].limitCheck
             current == loc[r].currentNeurons
             newTotal == NAdd(current, loc[r].consumedNeurons)
         IN  /\ NGe(check.remaining, NZero)
             /\ NGe(NLimit, check.remaining)
             /\ check.dailyLimit = DAILY_NEURON_LIMIT
             /\ check.allowed = ~NGt(newTotal, NLimit)
             /\ ~check.allowed
                  => check.remaining = IF NGt(current, NLimit) THEN NZero
                                       ELSE NSub(NLimit, current)
             /\ check.allowed => check.remaining = NSub(NLimit, newTotal)

\* One call was admitted and reported what is left under the cap after it;
\* a later call read that counter and was denied, reporting the same amount.
C15_Witness ==
  \E r \in Reqs, o \in Reqs :
    /\ Admitted(o) /\ Denied(r)
    /\ ~loc[r].readFailed /\ loc[r].stored # Null
    /\ loc[r].currentNeurons = loc[o].newTotal
    /\ loc[o].limitCheck.remaining = NSub(NLimit, loc[o].newTotal)
    /\ loc[r].limitCheck.remaining = loc[o].limitCheck.remaining
    /\ NGt(loc[r].limitCheck.remaining, NZero)

\* The limit handler r's request passed to findRelevantVerses.
RequestedLimit(r) ==
  IF loc[r].request.path = "/api/search"
  THEN SearchLimit[loc[r].request.limit]
  ELSE Num(AskLimit)

\* C16: findRelevantVerses never returns more verses than the requested
\* limit, for the fixed 3 of /api/ask and for every value parsed from the
\* limit parameter of /api/search; a negative or unparsable limit asks for
\* no verse.
C16_NeverMoreThanLimit ==
  \A r \in Reqs :
    loc[r].ranked
      => LET limit == RequestedLimit(r)
         IN  Len(loc[r].relevantVerses)
               <= (IF limit.nan \/ limit.value < 0 THEN 0 ELSE limit.value)

\* The keyword list handler r's request was ranked by.
RequestKeywords(r) ==
  IF loc[r].request.path = "/api/search"
  THEN SearchKeywords[loc[r].request.q]
  ELSE Keywords[loc[r].question]

\* The sum of the lengths of the keywords of the list that the text contains.
RECURSIVE KeywordScore(_, _, _)
KeywordScore(text, keywords, i) ==
  IF i > Len(keywords) THEN 0
  ELSE (IF Includes(text, keywords[i]) THEN Len(keywords[i]) ELSE 0)
         + KeywordScore(text, keywords, i + 1)

\* Entry a stands before entry b in the corpus: chapter order, then verse order.
CorpusBefore(a, b) ==
  a.surah_id < b.surah_id \/ (a.surah_id = b.surah_id /\ a.verse_id < b.verse_id)

\* C17: the list findRelevantVerses returns holds only verses of the corpus
\* with score > 0, the score being the sum of the lengths of the keywords the
\* lowercased translation contains; the list is in non-increasing order of
\* score, and verses of equal score stand in corpus order.
C17_RankedByScoreThenCorpusOrder ==
  \A r \in Reqs :
    loc[r].ranked
      => LET v == loc[r].relevantVerses
             data == loc[r].data
             keywords == RequestKeywords(r)
         IN  /\ \A i \in 1..Len(v) :
                  /\ v[i].surah_id \in 1..Len(data)
                  /\ v[i].verse_id \in 1..Len(data[v[i].surah_id].verses)
                  /\ LET verse == data[v[i].surah_id].verses[v[i].verse_id]
                     IN  /\ v[i].verse_text_translation = verse.translation
                         /\ v[i].score =
                              KeywordScore(toLowerCase(verse.translation), keywords, 1)
                  /\ v[i].score > 0
             /\ \A i \in 1..Len(v), j \in 1..Len(v) :
                  i < j => \/ v[i].score > v[j].score
                           \/ v[i].score = v[j].score /\ CorpusBefore(v[i], v[j])

\* A search returned verses of two scores: the first three tie and stand in
\* corpus order, and a verse of an earlier chapter follows them with a lower
\* score.
C17_Witness ==
  \E r \in Reqs :
    /\ loc[r].ranked /\ loc[r].request.path = "/api/search"
    /\ resp[r].status = 200
    /\ Len(resp[r].body.results) >= 4
    /\ LET v == resp[r].body.results
       IN  /\ v = loc[r].relevantVerses
           /\ v[1].score = v[2].score /\ v[2].score = v[3].score
           /\ CorpusBefore(v[1], v[2]) /\ CorpusBefore(v[2], v[3])
           /\ v[4].score < v[3].score
           /\ CorpusBefore(v[4], v[1])

\* Whether every token of the question, after lowercasing and punctuation
\* stripping, is a stop-word or at most 2 characters long.
StopWordsOnly ==
  [ question \in Questions |->
      LET tokens == SplitWhitespace(StripPunctuation(toLowerCase(question)))
      IN  \A i \in 1..Len(tokens) : tokens[i] \in stopWords \/ Len(tokens[i]) <= 2 ]

\* C18: for a question made only of stop-words and tokens of at most 2
\* characters extractKeywords returns the empty list and findRelevantVerses
\* the empty result, and the /api/ask request goes on to env.AI.run with an
\* empty verse list, which is what its response carries.
C18_StopWordQuestionRanksNothing ==
  \A r \in Reqs :
    (ValidAsk(r) /\ StopWordsOnly[loc[r].question])
      => /\ Keywords[loc[r].question] = <<>>
         /\ Ranked[loc[r].data][loc[r].question] = <<>>
         /\ loc[r].ranked /\ loc[r].relevantVerses = <<>>
         /\ loc[r].aiCalled
         /\ pc[r] \in { "ai", "kvget", "kvput", "done" }
         /\ resp[r] # NoResponse
              => /\ resp[r].status = 200
                 /\ resp[r].body.kind = "ask"
                 /\ resp[r].body.verses_data = <<>>

\* The question "Apa itu?" got the model's answer, with no verse, over a
\* corpus in which other questions have matches.
C18_Witness ==
  \E r \in Reqs :
    /\ ValidAsk(r) /\ StopWordsOnly[loc[r].question]
    /\ loc[r].data = MapSurahs(RemoteSurahs)
    /\ Admitted(r)
    /\ resp[r].body.success /\ resp[r].body.answer = loc[r].aiAnswer
    /\ resp[r].body.verses_data = <<>>

\* C19: a language code other than 'id' and 'en' is treated as 'id'
\* throughout an /api/ask request: the system prompt, the user prompt, the
\* degraded answer text and the disclaimer are those of language = 'id'.
C19_UnknownLanguageIsPrimary ==
  \A r \in Reqs :
    (ValidAsk(r) /\ loc[r].language \notin { "id", "en" })
      => LET question == loc[r].question
             verses == loc[r].relevantVerses
         IN  /\ SYSTEM_PROMPTS(loc[r].language) = SYSTEM_PROMPTS("id")
             /\ createQuranPrompt(question, verses, loc[r].language)
                  = createQuranPrompt(question, verses, "id")
             /\ resp[r] # NoResponse
                  => LET primary ==
                           IF resp[r].body.success
                           THEN formatResponse(loc[r].aiAnswer, verses, "id", NoAI)
                           ELSE IF Denied(r)
                           THEN LimitExceededResponse(question, verses, "id", loc[r].limitCheck)
                           ELSE AIErrorResponse(question, verses, "id")
                     IN  /\ resp[r].body.answer = primary.answer
                         /\ resp[r].body.disclaimer = primary.disclaimer

\* C20: the token counts charged to the quota are the figures the gateway
\* reported whenever its answer carries a usage figure, a reported 0
\* included; only without a figure are they the estimates ceil(length / 4)
\* of the system and user prompt together and of the extracted answer.
C20_ReportedUsageIsCharged ==
  \A r \in Reqs :
    (ValidAsk(r) /\ loc[r].aiReturned)
      => LET a == loc[r].aiResponse
             prompt == SYSTEM_PROMPTS(loc[r].language)
                         \o createQuranPrompt(loc[r].question, loc[r].relevantVerses,
                                              loc[r].language)
         IN  /\ a.usage
                  => /\ loc[r].promptTokens = a.prompt_tokens
                     /\ loc[r].completionTokens = a.completion_tokens
             /\ ~a.usage
                  => /\ loc[r].promptTokens = (Len(prompt) + 3) \div 4
                     /\ loc[r].completionTokens = (Len(loc[r].aiAnswer) + 3) \div 4
             /\ loc[r].consumedNeurons =
                  calculateNeuronsConsumed(loc[r].promptTokens, loc[r].completionTokens)

\* C21: usage is isolated per UTC day.  A call derives its day key once, on
\* the day it is made, and keeps it; it reads the counter of that key and
\* only its own put changes a counter, that of its key; the counter of a day
\* that has not begun is empty, and a call that reads the key of a day on
\* which no call has been admitted yet sees current = 0, whatever the other
\* days hold and wherever midnight falls.
C21_UsageIsolatedPerDay ==
  [][ /\ \A r \in Reqs :
           /\ (pc[r] = "ai" /\ pc'[r] = "kvget") => loc'[r].today = now
           /\ pc[r] \in { "kvget", "kvput" } => loc'[r].today = loc[r].today
           /\ (pc[r] = "kvget" /\ pc'[r] # "kvget")
                => /\ loc'[r].stored = kv[loc[r].today]
                   /\ loc'[r].currentNeurons
                        = CurrentNeurons(~loc'[r].readFailed, kv[loc[r].today])
                   /\ charged[loc[r].today] = NZero => loc'[r].currentNeurons = NZero
      /\ \A d \in Days :
           /\ d > now => kv[d] = Null
           /\ (kv'[d] # kv[d] /\ kv'[d] # Null)
                => \E r \in Reqs :
                     /\ pc[r] = "kvput" /\ pc'[r] = "done"
                     /\ loc[r].today = d
                     /\ kv'[d] = NumberToString(loc[r].newTotal) ]_vars

\* A call made on day 1 is still between its read and its put on day 2; the
\* first call of day 2 read an empty counter, was admitted from 0 and stored
\* its cost under day 2, while day 1 keeps its total.
C21_Witness ==
  \E r \in Reqs, o \in Reqs :
    /\ now = 2
    /\ pc[r] = "kvput" /\ loc[r].today = 1
    /\ kv[1] # Null
    /\ Admitted(o) /\ loc[o].today = 2
    /\ ~loc[o].readFailed /\ loc[o].stored = Null
    /\ kv[2] = NumberToString(loc[o].consumedNeurons)

\* C22: starting from an empty store, the persisted counter of every day key
\* is between 0 and the daily limit in every reachable state, under any
\* interleaving of the calls and any storage failure.
C22_CounterWithinLimit ==
  \A d \in Days :
    /\ NGe(CounterValue(d), NZero)
    /\ NGe(NLimit, CounterValue(d))

\* Calls were admitted for more than the daily limit in total on the current
\* day, through a stale or failed read, and the counter stands at the limit.
C22_Witness ==
  /\ NGt(charged[now], NLimit)
  /\ disturbed[now]
  /\ kv[now] = NumberToString(NLimit)

\* The response of handler r carries output of the model.
ModelOutputReturned(r) ==
  /\ resp[r] # NoResponse
  /\ \/ resp[r].body.kind = "chat"
     \/ resp[r].body.kind = "ask" /\ resp[r].body.success

\* C23: every model invocation of the handler is metered: whenever env.AI.run
\* has returned and the request has its response, checkAndUpdateNeuronLimit
\* ran before it, and the response carries model output only when the check
\* allowed it.
C23_EveryModelCallMetered ==
  \A r \in Reqs :
    (loc[r].aiReturned /\ resp[r] # NoResponse)
      => /\ loc[r].kvRead /\ loc[r].limitCheck.reached
         /\ ModelOutputReturned(r) => loc[r].limitCheck.allowed

====
